---- MODULE Spec2Model ----
(***************************************************************************)
(* JN5000 Ultimate, Streamlit edition (src/main.py): the session state     *)
(* (message log, run flag, bot reference, three counters), the script runs *)
(* of the dashboard on the main thread (one run per button press or        *)
(* rerun) and the handlers of the Twitch bots on their connector threads.  *)
(*                                                                         *)
(* A step is one script run (sidebar to footer, or up to its st.rerun()),  *)
(* one call of a bot's event handler, or the end of a connector thread.    *)
(* Under Spec and SpecRestart the writes inside one step are not           *)
(* interleaved with other steps.                                           *)
(*                                                                         *)
(* A formatted string is modelled as the tuple of its parts ("note" and    *)
(* "robot" stand for the two emoji prefixes).  Timestamps are left out:    *)
(* the program only formats them for display.  The persona profile is      *)
(* left out: it only shapes the text of the completion prompt.             *)
(*                                                                         *)
(* Spec is the whole program; SpecRestart leaves the chat events out and   *)
(* allows a restart, so that a connector thread can outlive its run.       *)
(* SpecRace takes the accesses to st.session_state one at a time, so that  *)
(* the main thread and the connector threads interleave inside a step.     *)
(***************************************************************************)
EXTENDS Integers, Sequences, FiniteSets, TLC

\* Bounds of the model.
MaxBots == 1          \* successful starts under Spec
MaxEvents == 2        \* inbound chat events delivered in total under Spec
MaxRestarts == 2      \* successful starts under SpecRestart
MaxRaceBots == 1      \* successful starts under SpecRace
MaxRaceEvents == 1    \* inbound chat events delivered in total under SpecRace

\* main.py:508, st.session_state.messages[-50:]
DisplayN == 50

VARIABLES
    messages,               \* st.session_state.messages
    system_running,         \* st.session_state.system_running
    twitch_bot,             \* st.session_state.twitch_bot: 0 is None, else an index of bots
    message_count,          \* st.session_state.message_count
    translation_count,      \* st.session_state.translation_count
    ai_response_count,      \* st.session_state.ai_response_count
    bots,                   \* the JN5000Bot instances created so far, with their threads
    handled,                \* history: the number of inbound chat events delivered so far
    last,                   \* history: what the handler did, when the latest step was an inbound chat event
    outbox,                 \* what channel.send has transmitted to the chat channel
    run,                    \* when the latest step was a script run: the button pressed, the
                            \* required fields the Start handler read and the page drawn
    sinceClear,             \* history: non-echo events delivered since the log was last cleared
    TWITCH_AVAILABLE,       \* main.py:17-22
    GROQ_AVAILABLE,         \* main.py:24-29
    TRANSLATION_AVAILABLE,  \* main.py:31-36
    script,                 \* where the main thread is inside a script run, when the writes
                            \* of a run are taken one at a time (SpecRace)
    threads                 \* the same for the connector threads, one entry for each bot

counters == <<message_count, translation_count, ai_response_count>>
session == <<messages, system_running, twitch_bot, message_count, translation_count, ai_response_count>>
imports == <<TWITCH_AVAILABLE, GROQ_AVAILABLE, TRANSLATION_AVAILABLE>>
frames == <<script, threads>>
vars == <<messages, system_running, twitch_bot, message_count, translation_count,
          ai_response_count, bots, handled, last, outbox, run, sinceClear,
          TWITCH_AVAILABLE, GROQ_AVAILABLE, TRANSLATION_AVAILABLE, script, threads>>

----------------------------------------------------------------------------
\* Inputs.

\* What the operator may have typed into a text field of the sidebar.
FieldValues == {"", "jn5000"}
\* The Groq API key field.
KeyValues == {"", "gsk_key"}
\* The target language selector (its default, of eleven options).
Languages == {"ar"}
\* Senders and texts of inbound chat messages.
Authors == {"viewer1"}
Contents == {"hello"}
\* What the completion backend does with a request: it raises, or it returns a text.
CompletionResults == {"ERROR", " ", "hi there"}
\* Why bot.run() raises.
ConnectorErrors == {"auth rejected", "network drop"}

None == "None"

----------------------------------------------------------------------------
\* Helpers.

RECURSIVE Reverse(_)
Reverse(s) == IF s = <<>> THEN <<>> ELSE Append(Reverse(Tail(s)), Head(s))

\* s[-n:]
LastN(s, n) == IF Len(s) <= n THEN s ELSE SubSeq(s, Len(s) - n + 1, Len(s))

\* str.strip() on the texts of CompletionResults
strip(s) == IF s = " " THEN "" ELSE s

\* Python truth of an Optional[str]
Truthy(s) == s # None /\ s # ""

\* One record of the log; ev is history, the inbound event the record was
\* made for (0 for a system record).
Record(type, username, message, ev) ==
    [type |-> type, username |-> username, message |-> message, ev |-> ev]

\* list.append
AppendRecord(log, r) == Append(log, r)

\* The latest step was no inbound chat event.
NoEvent == [ev |-> 0, bot |-> 0, author |-> "", content |-> "", echo |-> FALSE,
            tr |-> "off", ai |-> "off", response |-> None, send |-> "none",
            raised |-> FALSE]

Alive(b) == bots[b].state \in {"launched", "connected"}

\* The main thread between two script runs.
IdleScript == [pc |-> "idle", op |-> "none", message |-> <<>>, reg |-> 0]

\* The inputs of an inbound chat event, kept while its handler runs.
NoCall == [author |-> "", content |-> "", translated |-> FALSE, result |-> "ERROR",
           delivered |-> FALSE, ev |-> 0]

\* A connector thread outside its handlers.  Inside one: op is the write it
\* is making, rec the record it appends, reg the counter value it has read,
\* stale whether the list it has fetched is no longer the session's list.
IdleThread == [pc |-> "idle", op |-> "none", rec |-> Record("", "", <<>>, 0), reg |-> 0,
               stale |-> FALSE, call |-> NoCall]

----------------------------------------------------------------------------
\* main.py:229-245

add_system_message(message) ==
    /\ messages' = AppendRecord(messages, Record("system", "SystemBot", message, 0))
    /\ message_count' = message_count + 1

\* clear_messages with the reset of the AI-reply counter forgotten
clear_messages_KeepsAi ==
    /\ messages' = <<>>
    /\ message_count' = 0
    /\ translation_count' = 0
    /\ ai_response_count' = ai_response_count

clear_messages ==
    /\ messages' = <<>>
    /\ message_count' = 0
    /\ translation_count' = 0
    /\ ai_response_count' = 0

\* main.py:253-267
render_message(msg) ==
    [css_class |-> <<msg.type, "-msg">>, username |-> msg.username, content |-> msg.message]

\* main.py:505-511
RenderLog(log) ==
    LET shown == Reverse(LastN(log, DisplayN))
    IN  [i \in 1..Len(shown) |-> render_message(shown[i])]

\* main.py:368-402
Stats == <<message_count, translation_count, ai_response_count,
           IF system_running THEN "Running" ELSE "Stopped">>

\* A script run that st.rerun() ended in the sidebar: nothing of the main area is drawn.
BlankPage == [stats |-> <<>>, alerts |-> <<>>, log |-> <<>>, listed |-> FALSE]

\* A script run that reaches its end with the system stopped (lines 364-511).
IdlePage(alerts) ==
    [stats |-> Stats,
     alerts |-> IF messages = <<>> THEN alerts \o <<"info: no messages yet">> ELSE alerts,
     log |-> RenderLog(messages),
     listed |-> TRUE]

\* A script run that st.rerun() ended after the statistics were drawn.
CutPage(alerts) == [stats |-> Stats, alerts |-> alerts, log |-> <<>>, listed |-> FALSE]

\* One script run: pressed is the button that started it ("none" for a rerun
\* or a cycle of the auto-refresh).
Run(pressed, fields, page) == [pressed |-> pressed, fields |-> fields, page |-> page]

\* The latest step was no script run.
NoRun == Run("-", <<>>, BlankPage)

----------------------------------------------------------------------------
\* The script runs of the main thread.

Init ==
    /\ messages = <<>>
    /\ system_running = FALSE
    /\ twitch_bot = 0
    /\ message_count = 0
    /\ translation_count = 0
    /\ ai_response_count = 0
    /\ bots = <<>>
    /\ handled = 0
    /\ last = NoEvent
    /\ outbox = <<>>
    /\ run = NoRun
    /\ sinceClear = 0
    /\ TWITCH_AVAILABLE \in BOOLEAN
    /\ GROQ_AVAILABLE \in BOOLEAN
    /\ TRANSLATION_AVAILABLE \in BOOLEAN
    /\ script = IdleScript
    /\ threads = <<>>

\* main.py:350-353
ClearButton ==
    /\ clear_messages
    /\ sinceClear' = 0
    /\ run' = Run("clear", <<>>, BlankPage)
    /\ UNCHANGED <<system_running, twitch_bot, bots, handled, outbox, imports, frames>>
    /\ last' = NoEvent

\* main.py:355-357
RefreshButton ==
    /\ run' = Run("refresh", <<>>, BlankPage)
    /\ UNCHANGED <<session, bots, handled, outbox, sinceClear, imports, frames>>
    /\ last' = NoEvent

\* main.py:444-452, with the clients of lines 419-427
NewBot(ai_enabled, groq_api_key, translation_enabled, target_language) ==
    [state |-> "launched",
     groq_client |-> ai_enabled /\ groq_api_key # "" /\ GROQ_AVAILABLE,
     translator |-> translation_enabled /\ TRANSLATION_AVAILABLE,
     settings |-> [translation_enabled |-> translation_enabled,
                   target_language |-> target_language,
                   ai_enabled |-> ai_enabled]]

\* the validation with "and" for "or": only an entirely empty form is refused
MissingFields_All(twitch_channel, twitch_token, twitch_bot_name) ==
    twitch_channel = "" /\ twitch_token = "" /\ twitch_bot_name = ""

\* main.py:413
MissingFields(twitch_channel, twitch_token, twitch_bot_name) ==
    twitch_channel = "" \/ twitch_token = "" \/ twitch_bot_name = ""

\* main.py:410-476; created tells whether the constructors of lines 422-452 returned
StartSystem(twitch_channel, twitch_token, twitch_bot_name, ai_enabled, groq_api_key, translation_enabled, target_language, created) ==
    /\ ~system_running
    /\ IF MissingFields(twitch_channel, twitch_token, twitch_bot_name)
       THEN /\ run' = Run("start", <<twitch_channel, twitch_token, twitch_bot_name>>,
                          IdlePage(<<"error: fill in all Twitch configuration fields">>))
            /\ UNCHANGED <<session, bots>>
       ELSE IF ~TWITCH_AVAILABLE
       THEN /\ run' = Run("start", <<twitch_channel, twitch_token, twitch_bot_name>>,
                          IdlePage(<<"error: TwitchIO is not installed">>))
            /\ UNCHANGED <<session, bots>>
       ELSE IF ~created
       THEN /\ run' = Run("start", <<twitch_channel, twitch_token, twitch_bot_name>>,
                          IdlePage(<<"error: failed to start system">>))
            /\ UNCHANGED <<session, bots>>
       ELSE /\ bots' = Append(bots, NewBot(ai_enabled, groq_api_key,
                                           translation_enabled, target_language))
            /\ twitch_bot' = Len(bots) + 1
            /\ system_running' = TRUE
            /\ add_system_message(<<"System started! Connecting to Twitch...">>)
            /\ run' = Run("start", <<twitch_channel, twitch_token, twitch_bot_name>>,
                          CutPage(<<"success: system started">>))
            /\ UNCHANGED <<translation_count, ai_response_count>>
    /\ last' = NoEvent
    /\ UNCHANGED <<handled, outbox, sinceClear, imports, frames>>

\* A bot whose thread has ended ("failed" or "closed"): nothing reads its
\* other fields again.
EndedBot(state) ==
    [state |-> state, groq_client |-> FALSE, translator |-> FALSE,
     settings |-> [translation_enabled |-> FALSE, target_language |-> "", ai_enabled |-> FALSE]]

\* The Start System button with any input; with a required field empty the
\* other widgets are at their defaults (main.py:300-313).
StartButton(cap) ==
    \E ch \in FieldValues, tok \in FieldValues, nm \in FieldValues :
        IF MissingFields(ch, tok, nm)
        THEN StartSystem(ch, tok, nm, TRUE, "", TRUE, "ar", TRUE)
        ELSE \E ai \in BOOLEAN, key \in KeyValues, tr \in BOOLEAN, lang \in Languages,
                created \in BOOLEAN :
                 /\ StartSystem(ch, tok, nm, ai, key, tr, lang, created)
                 /\ Len(bots') <= cap

\* main.py:477-491; close() is best effort and leaves the connector thread to itself
StopButton ==
    /\ system_running
    /\ twitch_bot' = 0
    /\ system_running' = FALSE
    /\ add_system_message(<<"System stopped">>)
    /\ run' = Run("stop", <<>>, CutPage(<<"success: system stopped">>))
    /\ last' = NoEvent
    /\ UNCHANGED <<translation_count, ai_response_count, bots, handled, outbox,
                   sinceClear, imports, frames>>

\* main.py:364-511 with no button pressed: a rerun, or a cycle of the auto-refresh
ScriptRun ==
    /\ run' = Run("none", <<>>,
                   IF system_running
                   THEN CutPage(<<"info: auto-refreshing every 2 seconds">>)
                   ELSE IdlePage(<<>>))
    /\ UNCHANGED <<session, bots, handled, outbox, sinceClear, imports, frames>>
    /\ last' = NoEvent

----------------------------------------------------------------------------
\* The connector threads.

\* main.py:131-139
event_ready(b) ==
    /\ bots[b].state = "launched"
    /\ bots' = [bots EXCEPT ![b].state = "connected"]
    /\ add_system_message(<<"Connected to Twitch as", "nick">>)
    /\ last' = NoEvent
    /\ run' = NoRun
    /\ UNCHANGED <<system_running, twitch_bot, translation_count, ai_response_count,
                   handled, outbox, sinceClear, imports, frames>>

\* generate_ai_response returning the error text where it returns None
generate_ai_response_ErrorText(result) == strip(result)

\* main.py:195-222; result is what the completion backend does with the request
generate_ai_response(result) == IF result = "ERROR" THEN None ELSE strip(result)

\* The handler works on a record s: the part of the state it writes, the
\* number ev of the event, and the history of its calls (tr, ai, response,
\* send) and of an exception that leaves it (raised).

\* the chat step with the append forgotten
ChatStep_Dropped(s, author, content) ==
    [s EXCEPT !.message_count = s.message_count + 1]

\* main.py:147-154
ChatStep(s, author, content) ==
    [s EXCEPT !.messages = AppendRecord(s.messages, Record("twitch", author, <<content>>, s.ev)),
              !.message_count = s.message_count + 1]

\* the translation step without its try/except: the exception leaves the handler
TranslationStep_Uncaught(s, bot, content, translated) ==
    IF s.raised \/ ~(bot.settings.translation_enabled /\ bot.translator)
    THEN s
    ELSE IF translated
         THEN [s EXCEPT !.messages = AppendRecord(s.messages,
                            Record("translation", "Translator",
                                   <<"note", bot.settings.target_language, content>>, s.ev)),
                        !.translation_count = s.translation_count + 1,
                        !.tr = "ok"]
         ELSE [s EXCEPT !.tr = "raised", !.raised = TRUE]

\* main.py:156-171; translated tells whether translator.translate returned
TranslationStep(s, bot, content, translated) ==
    IF s.raised \/ ~(bot.settings.translation_enabled /\ bot.translator)
    THEN s
    ELSE IF translated
         THEN [s EXCEPT !.messages = AppendRecord(s.messages,
                            Record("translation", "Translator",
                                   <<"note", bot.settings.target_language, content>>, s.ev)),
                        !.translation_count = s.translation_count + 1,
                        !.tr = "ok"]
         ELSE [s EXCEPT !.tr = "raised"]

\* main.py:189-193; delivered tells whether channel.send returned
SendStep(s, author, response, delivered) ==
    IF delivered
    THEN [s EXCEPT !.outbox = Append(s.outbox, [ev |-> s.ev, text |-> <<"@", author, response>>]),
                   !.send = "ok"]
    ELSE [s EXCEPT !.send = "raised"]

\* main.py:173-193
AiStep(s, bot, author, content, result, delivered) ==
    IF s.raised \/ ~(bot.settings.ai_enabled /\ bot.groq_client)
    THEN s
    ELSE LET response == generate_ai_response(result)
             called == [s EXCEPT !.ai = IF result = "ERROR" THEN "raised" ELSE "returned",
                                 !.response = response]
         IN  IF Truthy(response)
             THEN SendStep([called EXCEPT
                              !.messages = AppendRecord(s.messages,
                                  Record("ai", "AI Bot",
                                         <<"robot", "@", author, ":", response>>, s.ev)),
                              !.ai_response_count = s.ai_response_count + 1],
                           author, response, delivered)
             ELSE called

\* The handler's record when it starts on event number ev.
HandlerState(ev) ==
    [messages |-> messages, message_count |-> message_count,
     translation_count |-> translation_count, ai_response_count |-> ai_response_count,
     outbox |-> outbox, ev |-> ev,
     tr |-> "off", ai |-> "off", response |-> None, send |-> "none", raised |-> FALSE]

\* the handler without the echo check
Handle_NoEchoCheck(s, bot, author, content, echo, translated, result, delivered) ==
    AiStep(TranslationStep(ChatStep(s, author, content), bot, content, translated),
           bot, author, content, result, delivered)

\* the handler with the AI step ahead of the translation step
Handle_AiFirst(s, bot, author, content, echo, translated, result, delivered) ==
    IF echo
    THEN s
    ELSE TranslationStep(AiStep(ChatStep(s, author, content), bot, author, content,
                                result, delivered),
                         bot, content, translated)

\* main.py:141-193
Handle(s, bot, author, content, echo, translated, result, delivered) ==
    IF echo
    THEN s
    ELSE AiStep(TranslationStep(ChatStep(s, author, content), bot, content, translated),
                bot, author, content, result, delivered)

event_message(b, author, content, echo, translated, result, delivered) ==
    /\ bots[b].state = "connected"
    /\ handled' = handled + 1
    /\ LET s == Handle(HandlerState(handled + 1), bots[b], author, content, echo,
                       translated, result, delivered)
       IN  /\ messages' = s.messages
           /\ message_count' = s.message_count
           /\ translation_count' = s.translation_count
           /\ ai_response_count' = s.ai_response_count
           /\ outbox' = s.outbox
           /\ last' = [ev |-> s.ev, bot |-> b, author |-> author, content |-> content,
                       echo |-> echo, tr |-> s.tr, ai |-> s.ai, response |-> s.response,
                       send |-> s.send, raised |-> s.raised]
    /\ sinceClear' = IF echo THEN sinceClear ELSE sinceClear + 1
    /\ run' = NoRun
    /\ UNCHANGED <<system_running, twitch_bot, bots, imports, frames>>

\* main.py:461-466, bot.run() raises
run_bot_raises(b, error) ==
    /\ Alive(b)
    /\ bots' = [bots EXCEPT ![b] = EndedBot("failed")]
    /\ add_system_message(<<"Error:", error>>)
    /\ system_running' = FALSE
    /\ last' = NoEvent
    /\ run' = NoRun
    /\ UNCHANGED <<twitch_bot, translation_count, ai_response_count, handled, outbox,
                   sinceClear, imports, frames>>

\* main.py:461-463, bot.run() returns
run_bot_returns(b) ==
    /\ Alive(b)
    /\ bots' = [bots EXCEPT ![b] = EndedBot("closed")]
    /\ last' = NoEvent
    /\ run' = NoRun
    /\ UNCHANGED <<session, handled, outbox, sinceClear, imports, frames>>

EventReady == \E b \in 1..Len(bots) : event_ready(b)

EventMessage ==
    /\ handled < MaxEvents
    /\ \E b \in 1..Len(bots), author \in Authors, content \in Contents :
        \/ event_message(b, author, content, TRUE, TRUE, "ERROR", TRUE)
        \/ \E translated \in BOOLEAN, result \in CompletionResults, delivered \in BOOLEAN :
            event_message(b, author, content, FALSE, translated, result, delivered)

RunBotRaises == \E b \in 1..Len(bots), error \in ConnectorErrors : run_bot_raises(b, error)

RunBotReturns == \E b \in 1..Len(bots) : run_bot_returns(b)

\* The whole program, started at most MaxBots times.
Next ==
    \/ ClearButton
    \/ RefreshButton
    \/ StartButton(MaxBots)
    \/ StopButton
    \/ ScriptRun
    \/ EventReady
    \/ EventMessage
    \/ RunBotRaises
    \/ RunBotReturns

Spec == Init /\ [][Next]_vars

\* The program without chat traffic, started at most MaxRestarts times.
NextRestart ==
    \/ ClearButton
    \/ RefreshButton
    \/ StartButton(MaxRestarts)
    \/ StopButton
    \/ ScriptRun
    \/ EventReady
    \/ RunBotRaises
    \/ RunBotReturns

SpecRestart == Init /\ [][NextRestart]_vars

----------------------------------------------------------------------------
\* The program with the writes of a script run and of a handler taken one at
\* a time, so that the main thread and the connector threads interleave
\* between them.  One step is one access to st.session_state: list.append
\* on a fetched list, the read of a counter, the write of a counter.  The
\* history variables last and run describe whole steps and are left alone.

\* The main thread.

\* main.py:410-455 with valid input, up to the call of add_system_message
RaceStart ==
    /\ script.pc = "idle"
    /\ ~system_running
    /\ TWITCH_AVAILABLE
    /\ Len(bots) < MaxRaceBots
    /\ \E ai \in BOOLEAN, key \in KeyValues, tr \in BOOLEAN, lang \in Languages :
           bots' = Append(bots, [NewBot(ai, key, tr, lang) EXCEPT !.state = "created"])
    /\ threads' = Append(threads, IdleThread)
    /\ twitch_bot' = Len(bots) + 1
    /\ system_running' = TRUE
    /\ script' = [pc |-> "append", op |-> "start",
                  message |-> <<"System started! Connecting to Twitch...">>, reg |-> 0]
    /\ UNCHANGED <<messages, counters, handled, last, outbox, run, sinceClear, imports>>

\* main.py:477-488, up to the call of add_system_message
RaceStop ==
    /\ script.pc = "idle"
    /\ system_running
    /\ twitch_bot' = 0
    /\ system_running' = FALSE
    /\ script' = [pc |-> "append", op |-> "stop", message |-> <<"System stopped">>, reg |-> 0]
    /\ UNCHANGED <<messages, counters, bots, handled, last, outbox, run, sinceClear,
                   imports, threads>>

\* main.py:231-236
MainAppend ==
    /\ script.pc = "append"
    /\ messages' = AppendRecord(messages, Record("system", "SystemBot", script.message, 0))
    /\ script' = [script EXCEPT !.pc = "load"]
    /\ UNCHANGED <<system_running, twitch_bot, counters, bots, handled, last, outbox, run,
                   sinceClear, imports, threads>>

\* main.py:237, the read of message_count
MainLoad ==
    /\ script.pc = "load"
    /\ script' = [script EXCEPT !.pc = "store", !.reg = message_count]
    /\ UNCHANGED <<session, bots, handled, last, outbox, run, sinceClear, imports, threads>>

\* main.py:237, the write of message_count
MainStore ==
    /\ script.pc = "store"
    /\ message_count' = script.reg + 1
    /\ script' = IF script.op = "start" THEN [script EXCEPT !.pc = "launch"] ELSE IdleScript
    /\ UNCHANGED <<messages, system_running, twitch_bot, translation_count,
                   ai_response_count, bots, handled, last, outbox, run, sinceClear,
                   imports, threads>>

\* main.py:459-476
MainLaunch ==
    /\ script.pc = "launch"
    /\ bots' = [bots EXCEPT ![Len(bots)].state = "launched"]
    /\ script' = IdleScript
    /\ UNCHANGED <<session, handled, last, outbox, run, sinceClear, imports, threads>>

\* main.py:242; a connector thread that has fetched the list is left with the old one
ClearLog ==
    /\ script.pc = "idle"
    /\ messages' = <<>>
    /\ sinceClear' = 0
    /\ threads' = [b \in 1..Len(threads) |->
                      IF threads[b].pc = "append"
                      THEN [threads[b] EXCEPT !.stale = TRUE]
                      ELSE threads[b]]
    /\ script' = [pc |-> "message_count", op |-> "clear", message |-> <<>>, reg |-> 0]
    /\ UNCHANGED <<system_running, twitch_bot, counters, bots, handled, last, outbox, run,
                   imports>>

\* main.py:243
ClearMessageCount ==
    /\ script.pc = "message_count"
    /\ message_count' = 0
    /\ script' = [script EXCEPT !.pc = "translation_count"]
    /\ UNCHANGED <<messages, system_running, twitch_bot, translation_count,
                   ai_response_count, bots, handled, last, outbox, run, sinceClear,
                   imports, threads>>

\* main.py:244
ClearTranslationCount ==
    /\ script.pc = "translation_count"
    /\ translation_count' = 0
    /\ script' = [script EXCEPT !.pc = "ai_response_count"]
    /\ UNCHANGED <<messages, system_running, twitch_bot, message_count,
                   ai_response_count, bots, handled, last, outbox, run, sinceClear,
                   imports, threads>>

\* main.py:245, then the rerun of line 353
ClearAiResponseCount ==
    /\ script.pc = "ai_response_count"
    /\ ai_response_count' = 0
    /\ script' = IdleScript
    /\ UNCHANGED <<messages, system_running, twitch_bot, message_count,
                   translation_count, bots, handled, last, outbox, run, sinceClear,
                   imports, threads>>

\* The connector threads.

\* The thread of bot b starts on the append of rec, as the part op of its handler.
Writing(b, op, rec, call) ==
    [threads EXCEPT ![b] = [pc |-> "fetch", op |-> op, rec |-> rec, reg |-> 0,
                            stale |-> FALSE, call |-> call]]

\* main.py:131-138, up to the append
ReadyBegins(b) ==
    /\ bots[b].state = "launched"
    /\ threads[b].pc = "idle"
    /\ bots' = [bots EXCEPT ![b].state = "connected"]
    /\ threads' = Writing(b, "ready",
                          Record("system", "SystemBot", <<"Connected to Twitch as", "nick">>, 0),
                          NoCall)
    /\ UNCHANGED <<session, handled, last, outbox, run, sinceClear, imports, script>>

\* main.py:141-153, up to the append
MessageBegins(b, author, content, echo, translated, result, delivered) ==
    /\ bots[b].state = "connected"
    /\ threads[b].pc = "idle"
    /\ handled < MaxRaceEvents
    /\ handled' = handled + 1
    /\ IF echo
       THEN UNCHANGED <<threads, sinceClear>>
       ELSE /\ threads' = Writing(b, "chat",
                                  Record("twitch", author, <<content>>, handled + 1),
                                  [author |-> author, content |-> content,
                                   translated |-> translated, result |-> result,
                                   delivered |-> delivered, ev |-> handled + 1])
            /\ sinceClear' = sinceClear + 1
    /\ UNCHANGED <<session, bots, last, outbox, run, imports, script>>

\* main.py:464-465, bot.run() raises, up to the append of add_system_message
RaisesBegins(b, error) ==
    /\ Alive(b)
    /\ threads[b].pc = "idle"
    /\ bots' = [bots EXCEPT ![b] = EndedBot("failed")]
    /\ threads' = Writing(b, "error", Record("system", "SystemBot", <<"Error:", error>>, 0),
                          NoCall)
    /\ UNCHANGED <<session, handled, last, outbox, run, sinceClear, imports, script>>

\* main.py:461-463, bot.run() returns
ThreadReturns(b) ==
    /\ Alive(b)
    /\ threads[b].pc = "idle"
    /\ bots' = [bots EXCEPT ![b] = EndedBot("closed")]
    /\ UNCHANGED <<session, handled, last, outbox, run, sinceClear, imports, frames>>

\* st.session_state.messages of lines 133, 148, 163, 181, 231: the list is fetched
ThreadFetch(b) ==
    /\ threads[b].pc = "fetch"
    /\ threads' = [threads EXCEPT ![b].pc = "append", ![b].stale = FALSE]
    /\ UNCHANGED <<session, bots, handled, last, outbox, run, sinceClear, imports, script>>

\* .append(...) of the same lines, on the list that was fetched
ThreadAppend(b) ==
    /\ threads[b].pc = "append"
    /\ messages' = IF threads[b].stale THEN messages
                   ELSE AppendRecord(messages, threads[b].rec)
    /\ threads' = [threads EXCEPT ![b].pc = "load"]
    /\ UNCHANGED <<system_running, twitch_bot, counters, bots, handled, last, outbox, run,
                   sinceClear, imports, script>>

\* The counter that goes with a record type (main.py:139, 154, 169, 187, 237).
CounterOf(type) ==
    IF type = "translation" THEN translation_count
    ELSE IF type = "ai" THEN ai_response_count
    ELSE message_count

\* the read of "+= 1"
ThreadLoad(b) ==
    /\ threads[b].pc = "load"
    /\ threads' = [threads EXCEPT ![b].pc = "store", ![b].reg = CounterOf(threads[b].rec.type)]
    /\ UNCHANGED <<session, bots, handled, last, outbox, run, sinceClear, imports, script>>

\* The handler's position after the write op.
After(op) ==
    IF op = "chat" THEN "translation"
    ELSE IF op = "translation" THEN "ai"
    ELSE IF op = "ai" THEN "send"
    ELSE IF op = "error" THEN "system_running"
    ELSE "idle"

\* the write of "+= 1"
ThreadStore(b) ==
    /\ threads[b].pc = "store"
    /\ LET type == threads[b].rec.type
           value == threads[b].reg + 1
       IN  /\ message_count' = IF type \in {"system", "twitch"} THEN value ELSE message_count
           /\ translation_count' = IF type = "translation" THEN value ELSE translation_count
           /\ ai_response_count' = IF type = "ai" THEN value ELSE ai_response_count
    /\ threads' = IF After(threads[b].op) = "idle"
                  THEN [threads EXCEPT ![b] = IdleThread]
                  ELSE [threads EXCEPT ![b].pc = After(threads[b].op)]
    /\ UNCHANGED <<messages, system_running, twitch_bot, bots, handled, last, outbox, run,
                   sinceClear, imports, script>>

\* main.py:156-171, up to the append
ThreadTranslation(b) ==
    /\ threads[b].pc = "translation"
    /\ LET call == threads[b].call
       IN  threads' = IF bots[b].settings.translation_enabled /\ bots[b].translator
                         /\ call.translated
                      THEN Writing(b, "translation",
                                   Record("translation", "Translator",
                                          <<"note", bots[b].settings.target_language,
                                            call.content>>, call.ev),
                                   call)
                      ELSE [threads EXCEPT ![b].pc = "ai"]
    /\ UNCHANGED <<session, bots, handled, last, outbox, run, sinceClear, imports, script>>

\* main.py:173-186, up to the append
ThreadAi(b) ==
    /\ threads[b].pc = "ai"
    /\ LET call == threads[b].call
           response == generate_ai_response(call.result)
       IN  threads' = IF bots[b].settings.ai_enabled /\ bots[b].groq_client
                         /\ Truthy(response)
                      THEN Writing(b, "ai",
                                   Record("ai", "AI Bot",
                                          <<"robot", "@", call.author, ":", response>>,
                                          call.ev),
                                   call)
                      ELSE [threads EXCEPT ![b] = IdleThread]
    /\ UNCHANGED <<session, bots, handled, last, outbox, run, sinceClear, imports, script>>

\* main.py:189-193
ThreadSend(b) ==
    /\ threads[b].pc = "send"
    /\ LET call == threads[b].call
       IN  outbox' = IF call.delivered
                     THEN Append(outbox, [ev |-> call.ev,
                                          text |-> <<"@", call.author,
                                                     generate_ai_response(call.result)>>])
                     ELSE outbox
    /\ threads' = [threads EXCEPT ![b] = IdleThread]
    /\ UNCHANGED <<session, bots, handled, last, run, sinceClear, imports, script>>

\* main.py:466
ThreadStopsSystem(b) ==
    /\ threads[b].pc = "system_running"
    /\ system_running' = FALSE
    /\ threads' = [threads EXCEPT ![b] = IdleThread]
    /\ UNCHANGED <<messages, twitch_bot, counters, bots, handled, last, outbox, run,
                   sinceClear, imports, script>>

RaceReady == \E b \in 1..Len(threads) : ReadyBegins(b)

RaceMessage ==
    \E b \in 1..Len(threads), author \in Authors, content \in Contents :
        \/ MessageBegins(b, author, content, TRUE, TRUE, "ERROR", TRUE)
        \/ \E translated \in BOOLEAN, result \in CompletionResults, delivered \in BOOLEAN :
            MessageBegins(b, author, content, FALSE, translated, result, delivered)

RaceRaises == \E b \in 1..Len(threads), error \in ConnectorErrors : RaisesBegins(b, error)

RaceReturns == \E b \in 1..Len(threads) : ThreadReturns(b)

RaceFetch == \E b \in 1..Len(threads) : ThreadFetch(b)

RaceAppend == \E b \in 1..Len(threads) : ThreadAppend(b)

RaceLoad == \E b \in 1..Len(threads) : ThreadLoad(b)

RaceStore == \E b \in 1..Len(threads) : ThreadStore(b)

RaceTranslation == \E b \in 1..Len(threads) : ThreadTranslation(b)

RaceAi == \E b \in 1..Len(threads) : ThreadAi(b)

RaceSend == \E b \in 1..Len(threads) : ThreadSend(b)

RaceStopsSystem == \E b \in 1..Len(threads) : ThreadStopsSystem(b)

NextRace ==
    \/ RaceStart
    \/ RaceStop
    \/ MainAppend
    \/ MainLoad
    \/ MainStore
    \/ MainLaunch
    \/ ClearLog
    \/ ClearMessageCount
    \/ ClearTranslationCount
    \/ ClearAiResponseCount
    \/ RaceReady
    \/ RaceMessage
    \/ RaceRaises
    \/ RaceReturns
    \/ RaceFetch
    \/ RaceAppend
    \/ RaceLoad
    \/ RaceStore
    \/ RaceTranslation
    \/ RaceAi
    \/ RaceSend
    \/ RaceStopsSystem

SpecRace == Init /\ [][NextRace]_vars

----------------------------------------------------------------------------
\* The claims.

Types(log) == [i \in 1..Len(log) |-> log[i].type]

CountOf(log, type) == Cardinality({i \in 1..Len(log) : log[i].type = type})

\* The records of event ev in the log, in log order.
RECURSIVE RecordsOf(_, _)
RecordsOf(log, ev) ==
    IF log = <<>> THEN <<>>
    ELSE IF Head(log).ev = ev THEN <<Head(log)>> \o RecordsOf(Tail(log), ev)
    ELSE RecordsOf(Tail(log), ev)

AiConfigured(b) == bots[b].settings.ai_enabled /\ bots[b].groq_client

\* What a step added at the end of the log, when it removed nothing.
Extends == Len(messages') >= Len(messages) /\ SubSeq(messages', 1, Len(messages)) = messages
Added == SubSeq(messages', Len(messages) + 1, Len(messages'))

\* C1: the number of chat records (type "twitch") in the log equals the number
\* of non-echo events delivered to event_message since the log was last
\* cleared, whatever the toggles are and whatever the backends do.
C1_ChatRecordsCountEvents == CountOf(messages, "twitch") = sinceClear

\* C1: two non-echo events were delivered and both are in the log, the second
\* with a failed translation.
C1_Witness ==
    /\ last.ev = 2 /\ ~last.echo /\ last.tr = "raised"
    /\ CountOf(messages, "twitch") = 2

\* C2: an inbound event whose echo flag is true changes nothing: no record, no
\* counter, no translation or completion request, no send, and neither the run
\* state nor the bots.
C2_EchoChangesNothing ==
    [][(last'.ev # 0 /\ last'.echo) =>
        /\ UNCHANGED <<messages, message_count, translation_count, ai_response_count>>
        /\ UNCHANGED <<outbox, system_running, twitch_bot, bots>>
        /\ last'.tr = "off" /\ last'.ai = "off" /\ last'.send = "none"]_vars

\* C2: an echo was delivered to a bot with translation and AI configured.
C2_Witness ==
    /\ last.ev # 0 /\ last.echo
    /\ AiConfigured(last.bot)
    /\ bots[last.bot].settings.translation_enabled /\ bots[last.bot].translator

\* C3: when the completion call fails for a non-echo message, the handler adds
\* no ai record, leaves the AI-reply counter alone and sends nothing; the log of
\* before is intact and is followed by the chat record and, when the translation
\* succeeded, the translation record.
C3_CompletionFailure ==
    [][(last'.ev # 0 /\ last'.ai = "raised") =>
        /\ Extends
        /\ Types(Added) = IF last'.tr = "ok" THEN <<"twitch", "translation">> ELSE <<"twitch">>
        /\ \A i \in 1..Len(Added) : Added[i].ev = last'.ev
        /\ ai_response_count' = ai_response_count
        /\ outbox' = outbox
        /\ last'.send = "none"]_vars

\* C3: the completion failed for a message whose translation had been appended.
C3_Witness ==
    /\ last.ev # 0 /\ last.ai = "raised" /\ last.tr = "ok"
    /\ CountOf(RecordsOf(messages, last.ev), "translation") = 1

\* C4: when the translation call fails for a non-echo message, no translation
\* record is added and the translation counter is left alone, the handler does
\* not raise, and with AI enabled and a completion client configured the
\* completion request is issued for that message.
C4_TranslationFailure ==
    [][(last'.ev # 0 /\ last'.tr = "raised") =>
        /\ Extends
        /\ \A i \in 1..Len(Added) : Added[i].type # "translation"
        /\ translation_count' = translation_count
        /\ ~last'.raised
        /\ AiConfigured(last'.bot) => last'.ai # "off"]_vars

\* C4: the translation failed and the completion was requested, answered and sent.
C4_Witness ==
    /\ last.ev # 0 /\ last.tr = "raised"
    /\ last.ai = "returned" /\ last.send = "ok"

\* C5: the Clear Messages button leaves the log empty and the three counters at
\* zero, and changes neither the run state nor the bot reference.
C5_ClearResets ==
    [][run'.pressed = "clear" =>
        /\ messages' = <<>>
        /\ message_count' = 0 /\ translation_count' = 0 /\ ai_response_count' = 0
        /\ UNCHANGED <<system_running, twitch_bot>>]_vars

\* C5: the log was cleared while the system was running, after an AI reply.
C5_Witness ==
    /\ run.pressed = "clear"
    /\ system_running /\ twitch_bot # 0
    /\ outbox # <<>>

\* C6: Start with the channel, the token or the bot username empty reports the
\* configuration error and changes nothing: run state, log, counters, bot
\* reference and bots (no bot is created, no thread launched).
C6_StartRefused ==
    [][(run'.pressed = "start" /\ \E i \in 1..3 : run'.fields[i] = "") =>
        /\ run'.page.alerts[1] = "error: fill in all Twitch configuration fields"
        /\ UNCHANGED <<messages, message_count, translation_count, ai_response_count>>
        /\ UNCHANGED <<system_running, twitch_bot, bots>>
        /\ ~system_running]_vars

\* C6: Start was pressed with only the channel empty, and was refused.
C6_Witness ==
    /\ run.pressed = "start"
    /\ run.fields = <<"", "jn5000", "jn5000">>
    /\ run.page.alerts[1] = "error: fill in all Twitch configuration fields"
    /\ ~system_running

\* C7: when bot.run() raises in the thread of bot b, the run state becomes
\* stopped and exactly one system record, describing the error, is appended; and
\* if the system was running, it was the run that launched b.
C7_ConnectorFailureStopsItsRun ==
    [][\A b \in 1..Len(bots) :
        (bots[b].state # "failed" /\ bots'[b].state = "failed") =>
            /\ ~system_running'
            /\ Extends
            /\ Len(Added) = 1
            /\ Added[1].type = "system" /\ Added[1].message[1] = "Error:"
            /\ system_running => twitch_bot = b]_vars

\* C8: a cycle of the auto-refresh (a script run with no button pressed while
\* the system is running) draws the most recent DisplayN records of the log,
\* most recent first.
C8_RefreshCycleRendersLog ==
    (run.pressed = "none" /\ system_running) =>
        /\ run.page.listed
        /\ run.page.log = RenderLog(messages)

\* C9: in the log, the records of one inbound message are in the order chat,
\* translation, ai.
C9_RecordOrder ==
    \A i \in 1..Len(messages), j \in 1..Len(messages) :
        (messages[i].ev # 0 /\ messages[i].ev = messages[j].ev) =>
            /\ (messages[i].type = "twitch" /\ messages[j].type \in {"translation", "ai"}) => i < j
            /\ (messages[i].type = "translation" /\ messages[j].type = "ai") => i < j

\* C9: one message has its chat, translation and ai records in the log.
C9_Witness ==
    \E e \in 1..handled :
        Types(RecordsOf(messages, e)) = <<"twitch", "translation", "ai">>

\* C10: for a non-echo message handled with AI enabled and a completion client
\* configured, the ai record, the increment of the AI-reply counter and the send
\* happen together or not at all: the message has an ai record exactly when the
\* generated text was transmitted to the channel, addressed to the sender.
C10_ReplyAllOrNothing ==
    (last.ev # 0 /\ ~last.echo /\ AiConfigured(last.bot)) =>
        LET recorded == CountOf(RecordsOf(messages, last.ev), "ai") = 1
            sent == \E j \in 1..Len(outbox) :
                        outbox[j] = [ev |-> last.ev,
                                     text |-> <<"@", last.author, last.response>>]
        IN  recorded <=> sent

\* No script run and no handler is part-way through.
Quiescent == script.pc = "idle" /\ \A b \in 1..Len(threads) : threads[b].pc = "idle"

\* C11: whenever no script run and no handler is part-way through, the
\* counters agree with the log: the translation counter is the number of
\* translation records, the AI-reply counter the number of ai records, and
\* the message counter the number of chat and system records, for every
\* interleaving of the connector threads' writes with the main thread's.
C11_CountersAgreeWithLog ==
    Quiescent =>
        /\ translation_count = CountOf(messages, "translation")
        /\ ai_response_count = CountOf(messages, "ai")
        /\ message_count = CountOf(messages, "twitch") + CountOf(messages, "system")

============================================================================
